---- MODULE Spec2Model ----
(***************************************************************************)
(* A model of gofika/bip39: the standard BIP39 codec (EntropyToMnemonic,   *)
(* EntropyFromMnemonic), the generalized codec in its two revisions        *)
(* (src/mnemonic.go and src/unnamed/part_002), SplitMnemonic and           *)
(* DetectLanguage.                                                         *)
(*                                                                         *)
(* Representation.                                                         *)
(*   byte slice   a sequence of 0..255                                     *)
(*   big.Int      a sequence of bits, most significant first, without      *)
(*                leading zeros (<<>> is 0): TLC integers are 32 bits wide *)
(*   word         a natural number naming the word's text                  *)
(*   string       a sequence of runes; a rune >= 0 is a whole word (a      *)
(*                maximal run of non-separator characters), a rune < 0 is  *)
(*                one separator character                                  *)
(*   (value, err) a record [val |-> ..., err |-> ...]; err = "nil" on      *)
(*                success, "panic" when the Go runtime aborts the call     *)
(***************************************************************************)
EXTENDS Integers, Sequences, FiniteSets, TLC

\* ------------------------------------------------------------------------
\* Bounds of the model
\* ------------------------------------------------------------------------
MaxPattern == 2

MaxSalt == 0

MaxSmallLen == 5

MaxTamper == 1

\* the longest string, in runes and whole words, a caller types
MaxTextLen == 4

\* ------------------------------------------------------------------------
\* Program constants
\* ------------------------------------------------------------------------
WordBits == 11

WordListLen == 2048

HashLen == 32

MaxArbitraryEntropy == 1024

IntBits == 64

ErrNil == "nil"

ErrInvalidEntropy == "ErrInvalidEntropy"

ErrInvalidMnemonic == "ErrInvalidMnemonic"

ErrInvalidNumberWords == "ErrInvalidNumberWords"

ErrChecksumIncorrect == "ErrChecksumIncorrect"

ErrEntropyTooLarge == "ErrEntropyTooLarge"

Panic == "panic"

validWordsSizes == {12, 15, 18, 21, 24}

validEntropyBits == {128, 160, 192, 224, 256}

\* ------------------------------------------------------------------------
\* Languages and runes (language.go)
\* ------------------------------------------------------------------------
English == 0

Japanese == 1

Korean == 2

Spanish == 3

ChineseSimplified == 4

ChineseTraditional == 5

French == 6

Italian == 7

Czech == 8

Portuguese == 9

innerLanguages == English..Portuguese

regularSpace == -1

japaneseSpace == -2

tabRune == -3

newlineRune == -4

delimiters == {tabRune, newlineRune, regularSpace}

\* unicode.IsSpace, as strings.TrimSpace uses it, on the runes of the model
IsSpace(r) == r \in delimiters \cup {japaneseSpace}

\* ------------------------------------------------------------------------
\* Arithmetic helpers
\* ------------------------------------------------------------------------
RECURSIVE Pow2Rec(_)
Pow2Rec(n) == IF n <= 0 THEN 1 ELSE 2 * Pow2Rec(n - 1)

Pow2Table == [n \in 0..16 |-> Pow2Rec(n)]

Pow2(n) == Pow2Table[n]

\* (x >> k) & 1
Bit(x, k) == (x \div Pow2(k)) % 2

Repeat(x, n) == [i \in 1..n |-> x]

\* the bits of a byte slice, first byte and most significant bit first
BytesToBits(data) == [k \in 1..(8 * Len(data)) |-> Bit(data[((k - 1) \div 8) + 1], 7 - ((k - 1) % 8))]

\* the value of bits lo..hi of a bit sequence (at most 11 of them)
RECURSIVE BitsValue(_, _, _)
BitsValue(bits, lo, hi) ==
    IF lo > hi THEN 0 ELSE 2 * BitsValue(bits, lo, hi - 1) + bits[hi]

\* ------------------------------------------------------------------------
\* Wordlist registry (package wordlists: ten tables of 2048 words and their
\* reverse maps). Two pairs of tables share words, as the real tables do.
\* ------------------------------------------------------------------------
SharedChinese(i) == i % 8 < 5

SharedFrench(i) == i % 16 = 0

\* m.wordList[index] for the instance of language lang
wordList(lang, index) ==
    IF lang = ChineseTraditional /\ SharedChinese(index)
    THEN ChineseSimplified * WordListLen + index
    ELSE IF lang = French /\ SharedFrench(index)
         THEN English * WordListLen + (WordListLen - 1 - index)
         ELSE lang * WordListLen + index

\* m.wordMap[word]: the index, or -1 when the word is absent (ok = false)
wordMap(lang, word) ==
    LET own == word - lang * WordListLen
        zh  == word - ChineseSimplified * WordListLen
        en  == WordListLen - 1 - (word - English * WordListLen)
    IN  IF lang = ChineseTraditional
        THEN IF own \in 0..(WordListLen - 1) /\ ~SharedChinese(own) THEN own
             ELSE IF zh \in 0..(WordListLen - 1) /\ SharedChinese(zh) THEN zh
             ELSE -1
        ELSE IF lang = French
        THEN IF own \in 0..(WordListLen - 1) /\ ~SharedFrench(own) THEN own
             ELSE IF en \in 0..(WordListLen - 1) /\ SharedFrench(en) THEN en
             ELSE -1
        ELSE IF own \in 0..(WordListLen - 1) THEN own ELSE -1

\* a word of no table
UnknownWord(k) == (Portuguese + 1) * WordListLen + k

\* NewMnemonic: the delimiter of the instance
delimiterOf(lang) == IF lang = Japanese THEN japaneseSpace ELSE regularSpace

\* ------------------------------------------------------------------------
\* Strings (language.go)
\* ------------------------------------------------------------------------
\* strings.Join(words, delimiter)
Join(words, delimiter) ==
    [k \in 1..(IF Len(words) = 0 THEN 0 ELSE 2 * Len(words) - 1) |->
        IF k % 2 = 1 THEN words[(k + 1) \div 2] ELSE delimiter]

\* the number of leading (dir = 1) or trailing (dir = -1) white space runes
RECURSIVE SpaceRun(_, _, _)
SpaceRun(s, i, dir) ==
    IF i < 1 \/ i > Len(s) \/ ~IsSpace(s[i]) THEN 0 ELSE 1 + SpaceRun(s, i + dir, dir)

\* strings.TrimSpace
TrimSpace(s) ==
    LET lead == SpaceRun(s, 1, 1)
    IN  IF lead = Len(s) THEN <<>>
        ELSE SubSeq(s, lead + 1, Len(s) - SpaceRun(s, Len(s), -1))

\* the rune test SplitMnemonic hands to strings.FieldsFunc
IsDelimiter(r) == r = japaneseSpace \/ r \in delimiters

\* a SplitMnemonic that does not know the ideographic space
SplitMnemonic_NoIdeographic(mnemonic) ==
    LET t == TrimSpace(mnemonic)
    IN  [words     |-> SelectSeq(t, LAMBDA r : r \notin delimiters),
         delimiter |-> regularSpace]

\* a SplitMnemonic that looks for the ideographic space before it trims
SplitMnemonic_NoTrim(mnemonic) ==
    [words     |-> SelectSeq(mnemonic, LAMBDA r : ~IsDelimiter(r)),
     delimiter |-> IF \E i \in 1..Len(mnemonic) : mnemonic[i] = japaneseSpace
                   THEN japaneseSpace ELSE regularSpace]

\* SplitMnemonic: FieldsFunc over the trimmed string; the delimiter becomes
\* the ideographic space when FieldsFunc meets one
SplitMnemonic(mnemonic) ==
    LET t == TrimSpace(mnemonic)
    IN  [words     |-> SelectSeq(t, LAMBDA r : ~IsDelimiter(r)),
         delimiter |-> IF \E i \in 1..Len(t) : t[i] = japaneseSpace
                       THEN japaneseSpace ELSE regularSpace]

\* a normalization that trims and leaves the inner separators alone
NormalizeMnemonic_TrimOnly(mnemonic) == TrimSpace(mnemonic)

NormalizeMnemonic(mnemonic) ==
    LET sp == SplitMnemonic(mnemonic) IN Join(sp.words, sp.delimiter)

\* ------------------------------------------------------------------------
\* SHA-256 (crypto/sha256), abstracted: a deterministic function from a byte
\* slice to HashLen bytes that depends on every byte and on its position.
\* salt selects one function of the family.
\* ------------------------------------------------------------------------
RECURSIVE WeightedSum(_, _, _)
WeightedSum(data, lo, hi) ==
    IF lo > hi THEN 0
    ELSE IF lo = hi THEN ((lo % 251) + 1) * data[lo]
    ELSE LET mid == (lo + hi) \div 2
         IN  (WeightedSum(data, lo, mid) + WeightedSum(data, mid + 1, hi)) % 65521

sha256Sum(data, salt) ==
    LET acc == (WeightedSum(data, 1, Len(data)) + 131 * Len(data) + 7919 * salt) % 65521
    IN  [i \in 1..HashLen |-> (acc * (2 * i + 1) + (acc \div 256) + 53 * i * i) % 256]

\* a checksum taken from the second byte of the hash
computeChecksum_SecondByte(entropy, salt) == sha256Sum(entropy, salt)[2]

\* computeChecksum of src/mnemonic.go: the first byte of the hash
computeChecksum(entropy, salt) == sha256Sum(entropy, salt)[1]

\* computeChecksum of src/unnamed/part_002: the whole hash
computeChecksumHash(entropy, salt) == sha256Sum(entropy, salt)

\* ------------------------------------------------------------------------
\* Bit codec (mnemonic.go)
\* ------------------------------------------------------------------------
\* extractBits: length bits of data from bit offset start, most significant
\* first; the loop of the code, i counting the bits read so far
RECURSIVE extractBitsLoop(_, _, _, _, _)
extractBitsLoop(data, start, length, i, result) ==
    IF i >= length THEN result
    ELSE LET byteIndex == (start + i) \div 8
             bitIndex  == (start + i) % 8
         IN  extractBitsLoop(data, start, length, i + 1,
                             2 * result + Bit(data[byteIndex + 1], 7 - bitIndex))

\* an extractBits that takes the first bit read as the least significant
RECURSIVE extractBitsLsbLoop(_, _, _, _, _)
extractBitsLsbLoop(data, start, length, i, result) ==
    IF i >= length THEN result
    ELSE LET byteIndex == (start + i) \div 8
             bitIndex  == (start + i) % 8
         IN  extractBitsLsbLoop(data, start, length, i + 1,
                                result + Pow2(i) * Bit(data[byteIndex + 1], 7 - bitIndex))

extractBits_LsbFirst(data, start, length) == extractBitsLsbLoop(data, start, length, 0, 0)

extractBits(data, start, length) == extractBitsLoop(data, start, length, 0, 0)

\* a padByteSlice that returns the slice as it is
padByteSlice_NoPad(slice, length) == slice

\* padByteSlice: left-pad with zero bytes to the given length
padByteSlice(slice, length) ==
    LET offset == length - Len(slice)
    IN  IF offset <= 0 THEN slice ELSE Repeat(0, offset) \o slice

\* ------------------------------------------------------------------------
\* math/big, on bit sequences without leading zeros
\* ------------------------------------------------------------------------
\* the position of the first 1 in bits[lo..hi], which holds at least one
RECURSIVE FirstOne(_, _, _)
FirstOne(bits, lo, hi) ==
    IF lo = hi THEN lo
    ELSE LET mid == (lo + hi) \div 2
         IN  IF \E i \in lo..mid : bits[i] = 1
             THEN FirstOne(bits, lo, mid) ELSE FirstOne(bits, mid + 1, hi)

BigNorm(bits) ==
    IF \A i \in 1..Len(bits) : bits[i] = 0 THEN <<>>
    ELSE SubSeq(bits, FirstOne(bits, 1, Len(bits)), Len(bits))

\* big.NewInt(x) for 0 <= x < 2^16
BigNewInt(x) == BigNorm([k \in 1..16 |-> Bit(x, 16 - k)])

\* the loop b = b*2048 | index over the word indices: every index is below
\* 2048, so each step appends the 11 bits of the index
BigFromIndices(indices) ==
    BigNorm([k \in 1..(WordBits * Len(indices)) |->
                Bit(indices[((k - 1) \div WordBits) + 1], WordBits - 1 - ((k - 1) % WordBits))])

\* And(b, mask) for mask = 2^width - 1
BigAndMask(b, width) ==
    IF Len(b) <= width THEN b ELSE BigNorm(SubSeq(b, Len(b) - width + 1, Len(b)))

\* Div(b, mask + 1) for mask = 2^width - 1
BigDivPow2(b, width) ==
    IF Len(b) <= width THEN <<>> ELSE SubSeq(b, 1, Len(b) - width)

\* b.Bytes(): the big-endian bytes without leading zero bytes
BigBytes(b) ==
    LET n   == (Len(b) + 7) \div 8
        pad == Repeat(0, 8 * n - Len(b)) \o b
    IN  [j \in 1..n |-> BitsValue(pad, 8 * j - 7, 8 * j)]

\* SetBytes over a byte slice
BigSetBytes(data) == BigNorm(BytesToBits(data))

\* Lsh(b, n)
BigLsh(b, n) == IF b = <<>> THEN <<>> ELSE b \o Repeat(0, n)

\* Rsh(b, n)
BigRsh(b, n) == BigDivPow2(b, n)

\* ------------------------------------------------------------------------
\* Mnemonic codec, standard sizes (mnemonic.go)
\* ------------------------------------------------------------------------
wordLengthChecksumMasks == (12 :> 15) @@ (15 :> 31) @@ (18 :> 63) @@ (21 :> 127) @@ (24 :> 255)

wordLengthChecksumShifts == (12 :> 16) @@ (15 :> 8) @@ (18 :> 4) @@ (21 :> 2)

\* a word-count check by range
isValidWordsSize_Range(count) == count >= 12 /\ count <= 24

isValidWordsSize(count) == count \in validWordsSizes

\* an entropy-size check by granularity
isValidEntropyBits_Multiple(entropyBits) == entropyBits % 32 = 0 /\ entropyBits <= 256

isValidEntropyBits(entropyBits) == entropyBits \in validEntropyBits

Ok(v) == [val |-> v, err |-> ErrNil]

Fail(e) == [val |-> <<>>, err |-> e]

\* the words of the 11-bit groups of a buffer
\* a word loop that reads 10 bits of each group
wordsOf_TenBits(lang, entropyWithChecksum, wordCount) ==
    [i \in 1..wordCount |->
        wordList(lang, extractBits(entropyWithChecksum, (i - 1) * WordBits, WordBits - 1))]

wordsOf(lang, entropyWithChecksum, wordCount) ==
    [i \in 1..wordCount |->
        wordList(lang, extractBits(entropyWithChecksum, (i - 1) * WordBits, WordBits))]

\* a lookup that drops the ok flag: an absent word reads as index 0
indicesOf_IgnoreOk(lang, words) ==
    [i \in 1..Len(words) |-> IF wordMap(lang, words[i]) = -1 THEN 0 ELSE wordMap(lang, words[i])]

\* the word indices of a word list, -1 for an absent word
indicesOf(lang, words) == [i \in 1..Len(words) |-> wordMap(lang, words[i])]

\* an encoder that forgets the checksum byte
EntropyToMnemonic_NoChecksum(lang, entropy, salt) ==
    IF ~isValidEntropyBits(Len(entropy) * 8) THEN Fail(ErrInvalidEntropy)
    ELSE Ok(Join(wordsOf(lang, entropy, (Len(entropy) * 8) \div WordBits),
                 delimiterOf(lang)))

EntropyToMnemonic(lang, entropy, salt) ==
    IF ~isValidEntropyBits(Len(entropy) * 8) THEN Fail(ErrInvalidEntropy)
    ELSE LET checksum == computeChecksum(entropy, salt)
             entropyWithChecksum == Append(entropy, checksum)
         IN  Ok(Join(wordsOf(lang, entropyWithChecksum,
                             (Len(entropyWithChecksum) * 8) \div WordBits),
                     delimiterOf(lang)))

\* a decoder that does not compare the checksums
EntropyFromMnemonic_NoChecksum(lang, mnemonic, salt) ==
    LET words      == SplitMnemonic(mnemonic).words
        wordsCount == Len(words)
    IN  IF ~isValidWordsSize(wordsCount) THEN Fail(ErrInvalidNumberWords)
        ELSE LET indices == indicesOf(lang, words)
             IN  IF \E i \in 1..wordsCount : indices[i] = -1 THEN Fail(ErrInvalidMnemonic)
                 ELSE IF wordsCount \notin DOMAIN wordLengthChecksumMasks THEN Fail(Panic)
                 ELSE LET b            == BigFromIndices(indices)
                          checksumMask == BigNewInt(wordLengthChecksumMasks[wordsCount])
                      IN  Ok(padByteSlice(BigBytes(BigDivPow2(b, Len(checksumMask))),
                                          (wordsCount \div 3) * 4))

EntropyFromMnemonic(lang, mnemonic, salt) ==
    LET words      == SplitMnemonic(mnemonic).words
        wordsCount == Len(words)
    IN  IF ~isValidWordsSize(wordsCount) THEN Fail(ErrInvalidNumberWords)
        ELSE LET indices == indicesOf(lang, words)
             IN  IF \E i \in 1..wordsCount : indices[i] = -1 THEN Fail(ErrInvalidMnemonic)
                 ELSE IF wordsCount \notin DOMAIN wordLengthChecksumMasks THEN Fail(Panic)
                 ELSE LET b            == BigFromIndices(indices)
                          checksumMask == BigNewInt(wordLengthChecksumMasks[wordsCount])
                          checksum     == BigAndMask(b, Len(checksumMask))
                          entropy      == padByteSlice(BigBytes(BigDivPow2(b, Len(checksumMask))),
                                                       (wordsCount \div 3) * 4)
                          entropyChecksumByte == computeChecksum(entropy, salt)
                          entropyChecksum ==
                              BigNewInt(IF wordsCount # 24
                                        THEN entropyChecksumByte \div wordLengthChecksumShifts[wordsCount]
                                        ELSE entropyChecksumByte)
                      IN  IF checksum # entropyChecksum THEN Fail(ErrChecksumIncorrect)
                          ELSE Ok(entropy)

\* the error rand.Read returns when the random source fails
ErrRandRead == "ErrRandRead"

\* a GenerateMnemonic that reads the random bytes before it checks the size
GenerateMnemonic_DrawFirst(lang, optBits, random, randErr, salt) ==
    LET entropyBits == IF optBits = -1 THEN 128 ELSE optBits
        entropySize == entropyBits \div 8
    IN  IF randErr
        THEN [val |-> <<>>, err |-> ErrRandRead, drawn |-> entropySize]
        ELSE LET r == EntropyToMnemonic(lang, SubSeq(random, 1, entropySize), salt)
             IN  [val |-> r.val, err |-> r.err, drawn |-> entropySize]

\* GenerateMnemonic. optBits is the WithEntropyBits option, -1 when absent;
\* random is what rand.Read puts into the buffer, randErr whether it fails.
\* drawn is the number of bytes the call asked rand.Read for.
GenerateMnemonic(lang, optBits, random, randErr, salt) ==
    LET entropyBits == IF optBits = -1 THEN 128 ELSE optBits
        entropySize == entropyBits \div 8
    IN  IF ~isValidEntropyBits(entropyBits)
        THEN [val |-> <<>>, err |-> ErrInvalidEntropy, drawn |-> 0]
        ELSE IF randErr
        THEN [val |-> <<>>, err |-> ErrRandRead, drawn |-> entropySize]
        ELSE LET r == EntropyToMnemonic(lang, SubSeq(random, 1, entropySize), salt)
             IN  [val |-> r.val, err |-> r.err, drawn |-> entropySize]

\* ------------------------------------------------------------------------
\* Mnemonic codec, arbitrary length
\* ------------------------------------------------------------------------
\* a padding without the test for a remainder: 4 bytes on aligned entropy
padEntropy_AlwaysPad(entropy) ==
    entropy \o Repeat(0, (32 - ((Len(entropy) * 8) % 32)) \div 8)

\* no padding at all
padEntropy_NoPad(entropy) == entropy

\* the zero padding to the next 32-bit boundary
padEntropy(entropy) ==
    LET remainder == (Len(entropy) * 8) % 32
    IN  IF remainder # 0 THEN entropy \o Repeat(0, (32 - remainder) \div 8) ELSE entropy

\* src/mnemonic.go: the checksum bytes repeat the first hash byte
ArbitraryEntropyToMnemonic(lang, entropy0, salt) ==
    IF Len(entropy0) = 0 THEN Fail(ErrInvalidEntropy)
    ELSE LET entropy       == padEntropy(entropy0)
             checksum      == computeChecksum(entropy, salt)
             checksumBits  == Len(entropy) \div 4
             checksumBytes == (checksumBits + 7) \div 8
             entropyWithChecksum == entropy \o Repeat(checksum, checksumBytes)
             totalBits     == Len(entropy) * 8 + checksumBits
         IN  Ok(Join(wordsOf(lang, entropyWithChecksum, totalBits \div WordBits),
                     delimiterOf(lang)))

\* src/unnamed/part_002: a size limit, and the checksum bytes are the
\* leading bytes of the hash
ArbitraryEntropyToMnemonic_p2(lang, entropy0, salt) ==
    IF Len(entropy0) = 0 THEN Fail(ErrInvalidEntropy)
    ELSE LET entropy == padEntropy(entropy0)
         IN  IF Len(entropy) > MaxArbitraryEntropy THEN Fail(ErrEntropyTooLarge)
             ELSE LET checksumHash  == computeChecksumHash(entropy, salt)
                      checksumBits  == Len(entropy) \div 4
                      checksumBytes == (checksumBits + 7) \div 8
                      entropyWithChecksum == entropy \o SubSeq(checksumHash, 1, checksumBytes)
                      totalBits     == Len(entropy) * 8 + checksumBits
                  IN  Ok(Join(wordsOf(lang, entropyWithChecksum, totalBits \div WordBits),
                              delimiterOf(lang)))

\* src/mnemonic.go. checksumMask is big.NewInt((1 << checksumBits) - 1) in
\* int arithmetic: for checksumBits >= 64 the shift gives 0 and the mask -1,
\* so the divisor mask + 1 is 0 and big.Int.Div aborts the call.
ArbitraryMnemonicToEntropy(lang, mnemonic, salt) ==
    LET words      == SplitMnemonic(mnemonic).words
        wordsCount == Len(words)
    IN  IF wordsCount = 0 \/ wordsCount % 3 # 0 THEN Fail(ErrInvalidNumberWords)
        ELSE LET entropySize  == (wordsCount \div 3) * 4
                 checksumBits == entropySize \div 4
                 indices      == indicesOf(lang, words)
             IN  IF \E i \in 1..wordsCount : indices[i] = -1 THEN Fail(ErrInvalidMnemonic)
                 ELSE IF checksumBits >= IntBits THEN Fail(Panic)
                 ELSE LET b        == BigFromIndices(indices)
                          checksum == BigAndMask(b, checksumBits)
                          entropy  == padByteSlice(BigBytes(BigDivPow2(b, checksumBits)), entropySize)
                          entropyChecksumByte == computeChecksum(entropy, salt)
                          additionalBits == checksumBits - 8
                          entropyChecksum ==
                              IF checksumBits <= 8
                              THEN BigNewInt(entropyChecksumByte \div Pow2(8 - checksumBits))
                              ELSE BigNorm([k \in 1..8 |-> Bit(entropyChecksumByte, 8 - k)]
                                           \o [i \in 1..additionalBits |->
                                                 Bit(entropyChecksumByte, 7 - ((i - 1) % 8))])
                      IN  IF checksum # entropyChecksum THEN Fail(ErrChecksumIncorrect)
                          ELSE Ok(entropy)

\* src/unnamed/part_002. The mask is built with big.Int shifts; the checksum
\* is read from checksumBytes hash bytes, and indexing the 32-byte hash at
\* 32 or beyond aborts the call.
ArbitraryMnemonicToEntropy_p2(lang, mnemonic, salt) ==
    LET words      == SplitMnemonic(mnemonic).words
        wordsCount == Len(words)
    IN  IF wordsCount = 0 \/ wordsCount % 3 # 0 THEN Fail(ErrInvalidNumberWords)
        ELSE LET entropySize  == (wordsCount \div 3) * 4
                 checksumBits == entropySize \div 4
                 indices      == indicesOf(lang, words)
             IN  IF \E i \in 1..wordsCount : indices[i] = -1 THEN Fail(ErrInvalidMnemonic)
                 ELSE LET b        == BigFromIndices(indices)
                          checksum == BigAndMask(b, checksumBits)
                          entropy  == padByteSlice(BigBytes(BigDivPow2(b, checksumBits)), entropySize)
                          entropyChecksumHash == computeChecksumHash(entropy, salt)
                          checksumBytes == (checksumBits + 7) \div 8
                          extraBits     == checksumBytes * 8 - checksumBits
                      IN  IF checksumBits <= 8
                          THEN IF checksum # BigNewInt(entropyChecksumHash[1] \div Pow2(8 - checksumBits))
                               THEN Fail(ErrChecksumIncorrect) ELSE Ok(entropy)
                          ELSE IF checksumBytes > HashLen THEN Fail(Panic)
                          ELSE IF checksum # BigRsh(BigSetBytes(SubSeq(entropyChecksumHash, 1, checksumBytes)),
                                                    extraBits)
                               THEN Fail(ErrChecksumIncorrect) ELSE Ok(entropy)

\* ------------------------------------------------------------------------
\* Language detection (DetectLanguage)
\* ------------------------------------------------------------------------
\* the loop over the words: languages without the word leave the candidate
\* map, and the call returns as soon as one candidate is left
RECURSIVE detectLoop(_, _, _)
detectLoop(words, i, possible) ==
    IF i > Len(words) THEN [languages |-> possible, ok |-> possible # {}]
    ELSE LET left == {l \in possible : wordMap(l, words[i]) # -1}
         IN  IF Cardinality(left) = 1 THEN [languages |-> left, ok |-> TRUE]
             ELSE detectLoop(words, i + 1, left)

\* optLanguages is the WithLanguages list as a set, {} when the option is absent
\* a detection that settles a tie by returning the first language left
DetectLanguage_FirstOfTie(mnemonic, optLanguages) ==
    LET restricted == IF optLanguages # {} THEN innerLanguages \cap optLanguages
                      ELSE innerLanguages
        sp == SplitMnemonic(mnemonic)
        possible == IF sp.delimiter = japaneseSpace THEN restricted \cap {Japanese}
                    ELSE restricted
        d == detectLoop(sp.words, 1, possible)
    IN  IF Cardinality(d.languages) > 1
        THEN [languages |-> {CHOOSE l \in d.languages : \A k \in d.languages : l <= k},
              ok |-> TRUE]
        ELSE d

\* a detection that does not look at the delimiter
DetectLanguage_AnyDelimiter(mnemonic, optLanguages) ==
    LET restricted == IF optLanguages # {} THEN innerLanguages \cap optLanguages
                      ELSE innerLanguages
    IN  detectLoop(SplitMnemonic(mnemonic).words, 1, restricted)

\* a detection that starts from all languages, whatever the option says
DetectLanguage_AllLanguages(mnemonic, optLanguages) ==
    LET sp == SplitMnemonic(mnemonic)
        possible == IF sp.delimiter = japaneseSpace THEN {Japanese} ELSE innerLanguages
    IN  detectLoop(sp.words, 1, possible)

DetectLanguage(mnemonic, optLanguages) ==
    LET restricted == IF optLanguages # {} THEN innerLanguages \cap optLanguages
                      ELSE innerLanguages
        sp         == SplitMnemonic(mnemonic)
        possible   == IF sp.delimiter = japaneseSpace
                      THEN restricted \cap {Japanese} ELSE restricted
    IN  detectLoop(sp.words, 1, possible)

\* a validity that is content with one detected language that decodes
IsMnemonicValid_AnyLanguage(mnemonic, salt) ==
    LET d == DetectLanguage(mnemonic, {})
    IN  IF ~d.ok THEN FALSE
        ELSE \E l \in d.languages : EntropyFromMnemonic(l, mnemonic, salt).err = ErrNil

\* IsMnemonicValid: the mnemonic must decode under every detected language
IsMnemonicValid(mnemonic, salt) ==
    LET d == DetectLanguage(mnemonic, {})
    IN  IF ~d.ok THEN FALSE
        ELSE \A l \in d.languages : EntropyFromMnemonic(l, mnemonic, salt).err = ErrNil

\* ------------------------------------------------------------------------
\* Seed (README.md). PBKDF2 with HMAC-SHA512 (golang.org/x/crypto/pbkdf2),
\* abstracted: a deterministic function of password, salt and iteration
\* count to keyLen bytes.
\* ------------------------------------------------------------------------
pbkdf2Key(password, pbSalt, iter, keyLen) ==
    LET acc == (WeightedSum(password, 1, Len(password)) + 131 * Len(password)
                + 31 * WeightedSum(pbSalt, 1, Len(pbSalt)) + 17 * Len(pbSalt) + iter) % 65521
    IN  [i \in 1..keyLen |-> (acc * (2 * i + 1) + (acc \div 256) + 53 * i * i) % 256]

\* the bytes of the string "mnemonic"
saltPrefix == <<109, 110, 101, 109, 111, 110, 105, 99>>

\* the passphrase left in NewSeedOptions after the options ran in order:
\* every WithPassphrase overwrites it, no option leaves the empty string
RECURSIVE passphraseOf(_, _)
passphraseOf(opts, passphrase) ==
    IF opts = <<>> THEN passphrase ELSE passphraseOf(Tail(opts), Head(opts))

\* a seed of the length of a SHA-256 hash
NewSeed_KeyLen32(mnemonic, opts) ==
    pbkdf2Key(mnemonic, saltPrefix \o passphraseOf(opts, <<>>), 2048, 32)

\* NewSeed. opts is the list of WithPassphrase options, each given by its
\* passphrase.
NewSeed(mnemonic, opts) ==
    pbkdf2Key(mnemonic, saltPrefix \o passphraseOf(opts, <<>>), 2048, 64)

\* ------------------------------------------------------------------------
\* Inputs of the callers
\* ------------------------------------------------------------------------
StandardLens == {16, 20, 24, 28, 32}

\* lengths beyond the standard ones: 9 and 10 checksum bits
LongLens == {33, 36, 40}

\* lengths around 64 checksum bits and around the 1024-byte limit
LargeLens == {252, 253, 256, 1021, 1024, 1025}

\* lengths of the word-count tests of the generalized encoder
SampleLens == {1, 4, 5, 8, 100, 128}

EntropyLens == (0..MaxSmallLen) \cup StandardLens \cup LongLens

\* entropy number p of length n: zeros, ones, leading zero bytes, and then
\* arithmetic progressions of bytes
Pattern(p, n) ==
    [i \in 1..n |->
        IF p = 0 THEN 0
        ELSE IF p = 1 THEN 255
        ELSE IF p = 2 THEN (IF i <= 2 THEN 0 ELSE ((i - 1) * 7) % 256)
        ELSE ((i - 1) * (2 * p + 1) + p) % 256]

\* e followed by zero bytes up to the next multiple of 4 bytes
ZeroPadded(e) ==
    [i \in 1..(4 * ((Len(e) + 3) \div 4)) |-> IF i <= Len(e) THEN e[i] ELSE 0]

\* the entropy e with its k-th bit flipped, bits counted from 1 at the most
\* significant bit of the first byte
FlipBit(e, k) ==
    LET byte == ((k - 1) \div 8) + 1
        bit  == 7 - ((k - 1) % 8)
    IN  [e EXCEPT ![byte] = IF Bit(e[byte], bit) = 0 THEN e[byte] + Pow2(bit)
                            ELSE e[byte] - Pow2(bit)]

\* the words ws written with irregular separators: a tab before every word,
\* a newline after it
Respaced(ws) ==
    [k \in 1..(3 * Len(ws)) |->
        IF k % 3 = 2 THEN ws[(k + 1) \div 3]
        ELSE IF k % 3 = 0 THEN newlineRune ELSE tabRune]

\* the WithLanguages lists a caller passes ({}: no option)
Restrictions ==
    {{}, {English}, {Japanese}, {ChineseSimplified, ChineseTraditional}}

\* the words of a string, in order
WordsOf(s) == SelectSeq(s, LAMBDA r : r >= 0)

\* the string s with its k-th word replaced by w
ReplaceWord(s, k, w) ==
    LET pos == CHOOSE i \in 1..Len(s) :
                   s[i] >= 0 /\ Cardinality({j \in 1..i : s[j] >= 0}) = k
    IN  [s EXCEPT ![pos] = w]

\* ------------------------------------------------------------------------
\* The state machine: one Mnemonic instance and one caller
\* ------------------------------------------------------------------------
VARIABLES lang, salt, entropy, spare, mnemonic, origin, optLanguages, call, op, res,
          calls

vars == <<lang, salt, entropy, spare, mnemonic, origin, optLanguages, call, op, res, calls>>

\* the other inputs of the last call: the WithEntropyBits option (-1: none),
\* whether rand.Read failed, the WithPassphrase options in order
NoCall == [entropyBits |-> -1, randErr |-> FALSE, passphrases |-> <<>>]

\* ------------------------------------------------------------------------
\* The caller's buffer. entropy is the slice a caller passes; spare holds
\* the bytes of its underlying array between the slice's length and its
\* capacity. The builtin append writes the new elements in place when they
\* fit the capacity and into a new array, leaving the caller's, when not.
\* ------------------------------------------------------------------------
appendSpare(sp, elems) ==
    IF Len(elems) = 0 \/ Len(elems) > Len(sp) THEN sp
    ELSE elems \o SubSeq(sp, Len(elems) + 1, Len(sp))

\* EntropyToMnemonic: append(entropy, checksum) after the size test
spareAfterEntropyToMnemonic(e, sp, s) ==
    IF ~isValidEntropyBits(Len(e) * 8) THEN sp
    ELSE appendSpare(sp, <<computeChecksum(e, s)>>)

\* ArbitraryEntropyToMnemonic, both revisions: the zero padding is appended
\* to entropy after the test for empty entropy and before any other test;
\* entropyWithChecksum is a new array
spareAfterArbitraryEntropyToMnemonic(e, sp) ==
    IF Len(e) = 0 THEN sp
    ELSE appendSpare(sp, SubSeq(padEntropy(e), Len(e) + 1, Len(padEntropy(e))))

Init ==
    /\ lang \in innerLanguages
    /\ salt \in 0..MaxSalt
    /\ \E n \in EntropyLens, p \in 0..MaxPattern : entropy = Pattern(p, n)
    /\ mnemonic = <<>>
    /\ origin = "none"
    /\ optLanguages = {}
    /\ call = NoCall
    /\ spare = <<>>
    /\ calls = <<>>
    /\ op = "NewMnemonic"
    /\ res = Ok(<<>>)

Encoders == {"EntropyToMnemonic", "ArbitraryEntropyToMnemonic", "ArbitraryEntropyToMnemonic_p2"}

\* an encoder call on the caller's entropy; the caller keeps the mnemonic
Encode(name, r, sp) ==
    /\ op' = name
    /\ res' = r
    /\ spare' = sp
    /\ mnemonic' = IF r.err = ErrNil THEN r.val ELSE mnemonic
    /\ origin' = IF r.err = ErrNil THEN name ELSE origin
    /\ optLanguages' = {}
    /\ call' = NoCall
    /\ UNCHANGED <<lang, salt, entropy, calls>>

\* the caller has just obtained the mnemonic it holds
Fresh == op \in Encoders \cup {"GenerateMnemonic", "TamperWord", "DropWord", "TypeWords", "Respace"}

\* a call on the caller's mnemonic
Decode(name, r) ==
    /\ op' = name
    /\ res' = r
    /\ optLanguages' = {}
    /\ call' = NoCall
    /\ UNCHANGED <<lang, salt, entropy, spare, mnemonic, origin, calls>>

\* the caller changes the mnemonic it holds
Edit(name, m, o) ==
    /\ mnemonic' = m
    /\ origin' = o
    /\ op' = name
    /\ res' = Ok(<<>>)
    /\ optLanguages' = {}
    /\ call' = NoCall
    /\ UNCHANGED <<lang, salt, entropy, spare, calls>>

CallEntropyToMnemonic ==
    /\ origin = "none"
    /\ Encode("EntropyToMnemonic", EntropyToMnemonic(lang, entropy, salt),
              spareAfterEntropyToMnemonic(entropy, spare, salt))

CallArbitraryEntropyToMnemonic ==
    /\ origin = "none"
    /\ Encode("ArbitraryEntropyToMnemonic", ArbitraryEntropyToMnemonic(lang, entropy, salt),
              spareAfterArbitraryEntropyToMnemonic(entropy, spare))

CallArbitraryEntropyToMnemonic_p2 ==
    /\ origin = "none"
    /\ Encode("ArbitraryEntropyToMnemonic_p2", ArbitraryEntropyToMnemonic_p2(lang, entropy, salt),
              spareAfterArbitraryEntropyToMnemonic(entropy, spare))

CallEntropyFromMnemonic ==
    /\ Fresh
    /\ Decode("EntropyFromMnemonic", EntropyFromMnemonic(lang, mnemonic, salt))

CallArbitraryMnemonicToEntropy ==
    /\ Fresh
    /\ Decode("ArbitraryMnemonicToEntropy", ArbitraryMnemonicToEntropy(lang, mnemonic, salt))

CallArbitraryMnemonicToEntropy_p2 ==
    /\ Fresh
    /\ Decode("ArbitraryMnemonicToEntropy_p2", ArbitraryMnemonicToEntropy_p2(lang, mnemonic, salt))

\* a caller without entropy lets the instance draw it; entropy records the
\* bytes rand.Read delivered
CallGenerateMnemonic ==
    /\ op = "NewMnemonic"
    /\ entropy = <<>>
    /\ \E optBits \in {-1, 0, 120, 128, 160, 192, 224, 256, 288},
          p \in 1..MaxPattern, randErr \in BOOLEAN :
          LET random == Pattern(p, 36)
              r      == GenerateMnemonic(lang, optBits, random, randErr, salt)
          IN  /\ res' = r
              /\ call' = [NoCall EXCEPT !.entropyBits = optBits, !.randErr = randErr]
              /\ mnemonic' = r.val
              /\ origin' = IF r.err = ErrNil THEN "GenerateMnemonic" ELSE origin
              /\ entropy' = IF r.err = ErrNil
                            THEN SubSeq(random, 1, (IF optBits = -1 THEN 128 ELSE optBits) \div 8)
                            ELSE entropy
    /\ op' = "GenerateMnemonic"
    /\ optLanguages' = {}
    /\ UNCHANGED <<lang, salt, spare, calls>>

\* the caller encodes again the entropy the last EntropyFromMnemonic returned
ReEncode ==
    /\ op = "EntropyFromMnemonic"
    /\ res.err = ErrNil
    /\ Decode("ReEncode", EntropyToMnemonic(lang, res.val, salt))

\* the same with the generalized codec, each revision with its own encoder
ReEncodeArbitrary ==
    /\ op \in {"ArbitraryMnemonicToEntropy", "ArbitraryMnemonicToEntropy_p2"}
    /\ res.err = ErrNil
    /\ IF op = "ArbitraryMnemonicToEntropy"
       THEN Decode("ReEncodeArbitrary", ArbitraryEntropyToMnemonic(lang, res.val, salt))
       ELSE Decode("ReEncodeArbitrary_p2", ArbitraryEntropyToMnemonic_p2(lang, res.val, salt))

\* the caller flips one bit of its entropy, the first, the 11th or the
\* last, and calls the encoder it has just called on the result
ReEncodeFlipped ==
    /\ op \in Encoders
    /\ res.err = ErrNil
    /\ \E k \in {1, WordBits, 8 * Len(entropy)} :
          /\ k <= 8 * Len(entropy)
          /\ Decode("ReEncodeFlipped",
                    IF op = "EntropyToMnemonic"
                    THEN EntropyToMnemonic(lang, FlipBit(entropy, k), salt)
                    ELSE IF op = "ArbitraryEntropyToMnemonic"
                    THEN ArbitraryEntropyToMnemonic(lang, FlipBit(entropy, k), salt)
                    ELSE ArbitraryEntropyToMnemonic_p2(lang, FlipBit(entropy, k), salt))

CallDetectLanguage ==
    /\ Fresh
    /\ \E r \in Restrictions :
          /\ optLanguages' = r
          /\ res' = DetectLanguage(mnemonic, r)
    /\ op' = "DetectLanguage"
    /\ call' = NoCall
    /\ UNCHANGED <<lang, salt, entropy, spare, mnemonic, origin, calls>>

\* the caller edits the mnemonic an encoder has just returned: one word
\* becomes another word of the wordlist or a word of no wordlist
TamperWord ==
    /\ op \in Encoders
    /\ res.err = ErrNil
    /\ LET n == Len(WordsOf(mnemonic))
       IN  \E k \in (1..MaxTamper) \cup {n},
              w \in {wordList(lang, 0), wordList(lang, WordListLen - 1), UnknownWord(0)} :
                /\ k \in 1..n
                /\ ReplaceWord(mnemonic, k, w) # mnemonic
                /\ Edit("TamperWord", ReplaceWord(mnemonic, k, w), "tampered")

\* the caller drops the last word of the mnemonic an encoder has just returned
DropWord ==
    /\ op \in Encoders
    /\ res.err = ErrNil
    /\ Edit("DropWord", SubSeq(mnemonic, 1, Len(mnemonic) - 2), "tampered")

\* a caller without entropy types a mnemonic of n copies of one word, known
\* or not, with the delimiter of the language or the ideographic space
TypeWords ==
    /\ op = "NewMnemonic"
    /\ entropy = <<>>
    /\ \E n \in {0, 1, 3, 11, 12, 13, 24, 25, 27},
          w \in {wordList(lang, 0), UnknownWord(1)},
          d \in {delimiterOf(lang), japaneseSpace} :
          Edit("TypeWords", Join(Repeat(w, n), d), "typed")

\* the caller rewrites the mnemonic an encoder has just returned with
\* irregular separators
Respace ==
    /\ op \in Encoders
    /\ res.err = ErrNil
    /\ Edit("Respace", Respaced(WordsOf(mnemonic)), "respaced")

CallIsMnemonicValid ==
    /\ Fresh
    /\ Decode("IsMnemonicValid", [valid |-> IsMnemonicValid(mnemonic, salt)])

\* the caller extends its entropy with zero bytes to the next multiple of 4
\* bytes itself and encodes that, with the encoder it has just called
ReEncodePadded ==
    /\ op \in {"ArbitraryEntropyToMnemonic", "ArbitraryEntropyToMnemonic_p2"}
    /\ res.err = ErrNil
    /\ Len(entropy) % 4 # 0
    /\ Decode("ReEncodePadded",
              IF op = "ArbitraryEntropyToMnemonic"
              THEN ArbitraryEntropyToMnemonic(lang, ZeroPadded(entropy), salt)
              ELSE ArbitraryEntropyToMnemonic_p2(lang, ZeroPadded(entropy), salt))

Next ==
    \/ CallGenerateMnemonic
    \/ CallEntropyToMnemonic
    \/ CallArbitraryEntropyToMnemonic
    \/ CallArbitraryEntropyToMnemonic_p2
    \/ CallEntropyFromMnemonic
    \/ CallArbitraryMnemonicToEntropy
    \/ CallArbitraryMnemonicToEntropy_p2
    \/ ReEncode
    \/ ReEncodeArbitrary
    \/ ReEncodeFlipped
    \/ ReEncodePadded
    \/ CallDetectLanguage
    \/ CallIsMnemonicValid
    \/ TamperWord
    \/ DropWord
    \/ Respace
    \/ TypeWords

Spec == Init /\ [][Next]_vars

\* ------------------------------------------------------------------------
\* The generalized codec on large entropy: the same calls, on entropy around
\* 64 checksum bits and around the 1024-byte limit, and on the lengths of
\* the word-count tests
\* ------------------------------------------------------------------------
InitLarge ==
    /\ lang \in {English, Japanese}
    /\ salt \in 0..MaxSalt
    /\ \E n \in LargeLens \cup SampleLens, p \in 0..MaxPattern : entropy = Pattern(p, n)
    /\ mnemonic = <<>>
    /\ origin = "none"
    /\ optLanguages = {}
    /\ call = NoCall
    /\ spare = <<>>
    /\ calls = <<>>
    /\ op = "NewMnemonic"
    /\ res = Ok(<<>>)

NextLarge ==
    \/ CallArbitraryEntropyToMnemonic
    \/ CallArbitraryEntropyToMnemonic_p2
    \/ CallArbitraryMnemonicToEntropy
    \/ CallArbitraryMnemonicToEntropy_p2

SpecLarge == InitLarge /\ [][NextLarge]_vars

\* ------------------------------------------------------------------------
\* The encoders on a slice with spare capacity
\* ------------------------------------------------------------------------
BufferLens == {0, 3, 4, 16, 17, 33}

Spares == {<<>>, <<170>>, <<170, 187, 204, 221>>}

InitBuffer ==
    /\ lang \in innerLanguages
    /\ salt \in 0..MaxSalt
    /\ \E n \in BufferLens, p \in 0..MaxPattern : entropy = Pattern(p, n)
    /\ spare \in Spares
    /\ mnemonic = <<>>
    /\ origin = "none"
    /\ optLanguages = {}
    /\ call = NoCall
    /\ calls = <<>>
    /\ op = "NewMnemonic"
    /\ res = Ok(<<>>)

NextBuffer ==
    \/ CallEntropyToMnemonic
    \/ CallArbitraryEntropyToMnemonic
    \/ CallArbitraryEntropyToMnemonic_p2

SpecBuffer == InitBuffer /\ [][NextBuffer]_vars

\* ------------------------------------------------------------------------
\* Concurrent calls. Two goroutines call the instance at the same time.
\* Call 1 encodes the slice entropy; call 2 encodes a longer slice of the
\* same array (entropy and the first extra bytes of spare), or reads the
\* mnemonic. A call is a sequence of steps, one for each access to memory
\* another call can reach; its local variables are fields of its record:
\*   extra     bytes of spare in the slice the caller passed
\*   input     the bytes of that slice when the call was made
\*   checksum  the local checksum of EntropyToMnemonic
\*   alias     the appended slice shares the caller's array
\*   ext       bytes of spare in the appended slice, when it shares the array
\*   data      the appended slice, when append allocated a new array
\*   possible  the candidate map of DetectLanguage, i its position in the words
\* ------------------------------------------------------------------------
Procs == {1, 2}

ConcEncoders == {"EntropyToMnemonic", "ArbitraryEntropyToMnemonic"}

ConcReaders == {"DetectLanguage", "EntropyFromMnemonic", "IsMnemonicValid"}

NewCall(name, extra, input) ==
    [name |-> name, extra |-> extra, input |-> input, pc |-> "start",
     checksum |-> 0, alias |-> FALSE, ext |-> 0, data |-> <<>>,
     possible |-> {}, i |-> 0, result |-> Ok(<<>>)]

\* the slice that starts where entropy starts and takes ext bytes of spare
SliceOf(ext) == entropy \o SubSeq(spare, 1, ext)

\* spare after append(slice, elems...) on the slice with ext bytes of spare
spareAfterAppend(ext, elems) ==
    SubSeq(spare, 1, ext) \o appendSpare(SubSeq(spare, ext + 1, Len(spare)), elems)

\* append writes in place: the elements fit the capacity
inPlace(ext, elems) == ext + Len(elems) <= Len(spare)

InitConc ==
    /\ lang \in innerLanguages
    /\ salt \in 0..MaxSalt
    /\ optLanguages = {}
    /\ call = NoCall
    /\ op = "NewMnemonic"
    /\ res = Ok(<<>>)
    /\ origin = "EntropyToMnemonic"
    /\ \E p \in 0..MaxPattern, n \in {3, 16}, k \in {1, 4} :
          /\ entropy = Pattern(p, n)
          /\ spare = SubSeq(Pattern(p, n + k), n + 1, n + k)
          /\ mnemonic = EntropyToMnemonic(lang, Pattern(p, 16), salt).val
          /\ \E name1 \in ConcEncoders, name2 \in ConcEncoders \cup ConcReaders :
                calls = [q \in Procs |->
                           IF q = 1 THEN NewCall(name1, 0, Pattern(p, n))
                           ELSE IF name2 \in ConcEncoders
                           THEN NewCall(name2, k, Pattern(p, n + k))
                           ELSE NewCall(name2, 0, <<>>)]

\* one step of call p: its record becomes c, the shared array's spare sp
Step(p, c, sp) ==
    /\ calls' = [calls EXCEPT ![p] = c]
    /\ spare' = sp
    /\ UNCHANGED <<lang, salt, entropy, mnemonic, origin, optLanguages, call, op, res>>

Done(c, r) == [c EXCEPT !.pc = "done", !.result = r]

\* EntropyToMnemonic: the size test and computeChecksum read the slice
HashStep ==
    \E p \in Procs :
        LET c == calls[p]
            e == SliceOf(c.extra)
        IN  /\ c.name = "EntropyToMnemonic"
            /\ c.pc = "start"
            /\ Step(p, IF ~isValidEntropyBits(Len(e) * 8) THEN Done(c, Fail(ErrInvalidEntropy))
                        ELSE [c EXCEPT !.pc = "hashed", !.checksum = computeChecksum(e, salt)],
                     spare)

\* EntropyToMnemonic: entropyWithChecksum := append(entropy, checksum)
AppendStep ==
    \E p \in Procs :
        LET c == calls[p]
        IN  /\ c.name = "EntropyToMnemonic"
            /\ c.pc = "hashed"
            /\ Step(p, [c EXCEPT !.pc = "appended",
                                  !.alias = inPlace(c.extra, <<c.checksum>>),
                                  !.ext = c.extra + 1,
                                  !.data = Append(SliceOf(c.extra), c.checksum)],
                     spareAfterAppend(c.extra, <<c.checksum>>))

\* EntropyToMnemonic: the word loop reads entropyWithChecksum
WordsStep ==
    \E p \in Procs :
        LET c == calls[p]
            entropyWithChecksum == IF c.alias THEN SliceOf(c.ext) ELSE c.data
        IN  /\ c.name = "EntropyToMnemonic"
            /\ c.pc = "appended"
            /\ Step(p, Done(c, Ok(Join(wordsOf(lang, entropyWithChecksum,
                                               (Len(entropyWithChecksum) * 8) \div WordBits),
                                       delimiterOf(lang)))),
                     spare)

\* ArbitraryEntropyToMnemonic: the test for empty entropy and the padding
\* entropy = append(entropy, make([]byte, paddingBytes)...)
PadStep ==
    \E p \in Procs :
        LET c     == calls[p]
            e     == SliceOf(c.extra)
            zeros == SubSeq(padEntropy(e), Len(e) + 1, Len(padEntropy(e)))
        IN  /\ c.name = "ArbitraryEntropyToMnemonic"
            /\ c.pc = "start"
            /\ IF Len(e) = 0 THEN Step(p, Done(c, Fail(ErrInvalidEntropy)), spare)
               ELSE Step(p, [c EXCEPT !.pc = "padded",
                                      !.alias = inPlace(c.extra, zeros),
                                      !.ext = c.extra + Len(zeros),
                                      !.data = e \o zeros],
                         spareAfterAppend(c.extra, zeros))

\* ArbitraryEntropyToMnemonic: the checksum, the copy into the new
\* entropyWithChecksum and the word loop read the padded entropy
EncodeStep ==
    \E p \in Procs :
        LET c      == calls[p]
            padded == IF c.alias THEN SliceOf(c.ext) ELSE c.data
        IN  /\ c.name = "ArbitraryEntropyToMnemonic"
            /\ c.pc = "padded"
            /\ Step(p, Done(c, ArbitraryEntropyToMnemonic(lang, padded, salt)), spare)

\* DetectLanguage: possible := innerLanguages(), a new map of this call,
\* then the WithLanguages filter and the rule for the ideographic space
DetectStart ==
    \E p \in Procs :
        LET c          == calls[p]
            restricted == IF optLanguages # {} THEN innerLanguages \cap optLanguages
                          ELSE innerLanguages
        IN  /\ c.name = "DetectLanguage"
            /\ c.pc = "start"
            /\ Step(p, [c EXCEPT !.pc = "words", !.i = 1,
                                  !.possible = IF SplitMnemonic(mnemonic).delimiter = japaneseSpace
                                               THEN restricted \cap {Japanese} ELSE restricted],
                     spare)

\* DetectLanguage: one round of the loop over the words; delete removes
\* from the call's own map
DetectWord ==
    \E p \in Procs :
        LET c     == calls[p]
            words == SplitMnemonic(mnemonic).words
            left  == {l \in c.possible : wordMap(l, words[c.i]) # -1}
        IN  /\ c.name = "DetectLanguage"
            /\ c.pc = "words"
            /\ Step(p, IF c.i > Len(words)
                        THEN Done(c, [languages |-> c.possible, ok |-> c.possible # {}])
                        ELSE IF Cardinality(left) = 1
                        THEN Done(c, [languages |-> left, ok |-> TRUE])
                        ELSE [c EXCEPT !.possible = left, !.i = c.i + 1],
                     spare)

\* EntropyFromMnemonic reads the mnemonic, a string, and the wordlist tables
DecodeStep ==
    \E p \in Procs :
        LET c == calls[p]
        IN  /\ c.name = "EntropyFromMnemonic"
            /\ c.pc = "start"
            /\ Step(p, Done(c, EntropyFromMnemonic(lang, mnemonic, salt)), spare)

\* IsMnemonicValid reads the mnemonic and the wordlist tables
ValidStep ==
    \E p \in Procs :
        LET c == calls[p]
        IN  /\ c.name = "IsMnemonicValid"
            /\ c.pc = "start"
            /\ Step(p, Done(c, [valid |-> IsMnemonicValid(mnemonic, salt)]), spare)

NextConc ==
    \/ HashStep
    \/ AppendStep
    \/ WordsStep
    \/ PadStep
    \/ EncodeStep
    \/ DetectStart
    \/ DetectWord
    \/ DecodeStep
    \/ ValidStep

SpecConc == InitConc /\ [][NextConc]_vars

\* ------------------------------------------------------------------------
\* The string functions: SplitMnemonic, NormalizeMnemonic and NewSeed on the
\* strings a caller types, which need not be mnemonics
\* ------------------------------------------------------------------------
\* two words and the separators of the tests: space, ideographic space, tab
TextRunes ==
    {wordList(English, 0), wordList(Japanese, 0), regularSpace, japaneseSpace, tabRune}

\* the strings of at most MaxTextLen runes; a word is one rune, so two
\* words are never adjacent
Texts ==
    {t \in UNION {[1..n -> TextRunes] : n \in 0..MaxTextLen} :
        \A i \in 1..(Len(t) - 1) : ~(t[i] >= 0 /\ t[i + 1] >= 0)}

\* the WithPassphrase options of a NewSeed call: none, the empty passphrase,
\* a passphrase, and two options of which the last one counts
Passphrases == {<<>>, << <<>> >>, << <<84, 82>> >>, << <<84, 82>>, <<>> >>}

InitText ==
    /\ lang = English
    /\ salt = 0
    /\ entropy = <<>>
    /\ mnemonic \in Texts
    /\ origin = "typed"
    /\ optLanguages = {}
    /\ call = NoCall
    /\ spare = <<>>
    /\ calls = <<>>
    /\ op = "NewMnemonic"
    /\ res = Ok(<<>>)

CallSplitMnemonic ==
    /\ op \in {"NewMnemonic", "KeepNormalized"}
    /\ Decode("SplitMnemonic", SplitMnemonic(mnemonic))

CallNormalizeMnemonic ==
    /\ op \in {"NewMnemonic", "KeepNormalized"}
    /\ Decode("NormalizeMnemonic", [val |-> NormalizeMnemonic(mnemonic)])

\* the caller goes on with the normalized string
KeepNormalized ==
    /\ op = "NormalizeMnemonic"
    /\ origin = "typed"
    /\ Edit("KeepNormalized", res.val, "normalized")

CallNewSeed ==
    /\ op = "NewMnemonic"
    /\ \E opts \in Passphrases :
          /\ call' = [NoCall EXCEPT !.passphrases = opts]
          /\ res' = [val |-> NewSeed(mnemonic, opts)]
    /\ op' = "NewSeed"
    /\ optLanguages' = {}
    /\ UNCHANGED <<lang, salt, entropy, spare, mnemonic, origin, calls>>

NextText ==
    \/ CallSplitMnemonic
    \/ CallNormalizeMnemonic
    \/ KeepNormalized
    \/ CallNewSeed

SpecText == InitText /\ [][NextText]_vars

\* ------------------------------------------------------------------------
\* Properties
\* ------------------------------------------------------------------------
\* the mnemonic the caller holds, as words
Words == SplitMnemonic(mnemonic).words

\* at least one word of the caller's mnemonic is not in the instance's wordlist
SomeWordAbsent == \E i \in 1..Len(Words) : wordMap(lang, Words[i]) = -1

\* C1: for every language and every entropy of 16, 20, 24, 28 or 32 bytes,
\* EntropyToMnemonic succeeds and EntropyFromMnemonic of its result succeeds
\* and returns exactly the entropy, leading zero bytes included.
C1_StandardRoundTrip ==
    /\ (op = "EntropyToMnemonic" /\ Len(entropy) \in {16, 20, 24, 28, 32})
          => res.err = ErrNil
    /\ (op = "EntropyFromMnemonic" /\ origin = "EntropyToMnemonic")
          => (res.err = ErrNil /\ res.val = entropy /\ Len(res.val) = Len(entropy))

C1_Witness ==
    /\ op = "EntropyFromMnemonic"
    /\ origin = "EntropyToMnemonic"
    /\ Len(entropy) = 32
    /\ entropy[1] = 0 /\ entropy[2] = 0 /\ entropy[3] # 0
    /\ res.err = ErrNil
    /\ lang = Japanese

\* C2: a mnemonic produced by EntropyToMnemonic or GenerateMnemonic decodes,
\* and encoding the decoded entropy again on the same instance gives the
\* same string, delimiter included.
C2_ReEncodeSame ==
    /\ (op = "EntropyFromMnemonic" /\ origin \in {"EntropyToMnemonic", "GenerateMnemonic"})
          => res.err = ErrNil
    /\ (op = "ReEncode" /\ origin \in {"EntropyToMnemonic", "GenerateMnemonic"})
          => (res.err = ErrNil /\ res.val = mnemonic)

C2_Witness ==
    /\ op = "ReEncode"
    /\ origin = "GenerateMnemonic"
    /\ lang = Japanese
    /\ Len(Words) = 24
    /\ \E i \in 1..Len(mnemonic) : mnemonic[i] = japaneseSpace
    /\ res.val = mnemonic

\* C3 (as claimed): for every entropy of 1 to 1024 bytes the generalized
\* decoder, applied to the generalized encoder's mnemonic, succeeds and
\* returns the entropy followed by zero bytes up to the next multiple of 4.
C3_ArbitraryRoundTrip ==
    /\ (op = "ArbitraryMnemonicToEntropy" /\ origin = "ArbitraryEntropyToMnemonic"
            /\ Len(entropy) \in 1..1024)
          => (res.err = ErrNil /\ res.val = ZeroPadded(entropy))
    /\ (op = "ArbitraryMnemonicToEntropy_p2" /\ origin = "ArbitraryEntropyToMnemonic_p2"
            /\ Len(entropy) \in 1..1024)
          => (res.err = ErrNil /\ res.val = ZeroPadded(entropy))

\* C4 (as claimed): ArbitraryEntropyToMnemonic succeeds for 1 to 1024 bytes,
\* fails with ErrInvalidEntropy for empty entropy and with ErrEntropyTooLarge
\* when the zero-padded length exceeds 1024 bytes.
C4_ArbitraryEncodeErrors ==
    op \in {"ArbitraryEntropyToMnemonic", "ArbitraryEntropyToMnemonic_p2"} =>
        /\ Len(entropy) = 0 => res.err = ErrInvalidEntropy
        /\ Len(entropy) \in 1..1024 => res.err = ErrNil
        /\ Len(ZeroPadded(entropy)) > 1024 => res.err = ErrEntropyTooLarge

\* C5: EntropyFromMnemonic returns ErrInvalidNumberWords for every mnemonic
\* whose word count is not 12, 15, 18, 21 or 24, whatever its words are.
C5_WordCountFirst ==
    (op = "EntropyFromMnemonic" /\ Len(Words) \notin {12, 15, 18, 21, 24})
        => (res.err = ErrInvalidNumberWords /\ res.val = <<>>)

C5_Witness ==
    /\ op = "EntropyFromMnemonic"
    /\ Len(Words) = 13
    /\ \A i \in 1..Len(Words) : wordMap(lang, Words[i]) = -1
    /\ res.err = ErrInvalidNumberWords

\* C6 (as claimed): ArbitraryMnemonicToEntropy returns ErrInvalidNumberWords
\* exactly when the word count is 0 or not a multiple of 3, and for every
\* positive multiple of 3 the outcome is the entropy, ErrInvalidMnemonic or
\* ErrChecksumIncorrect.
C6_ArbitraryWordCount ==
    op \in {"ArbitraryMnemonicToEntropy", "ArbitraryMnemonicToEntropy_p2"} =>
        IF Len(Words) = 0 \/ Len(Words) % 3 # 0
        THEN res.err = ErrInvalidNumberWords
        ELSE res.err \in {ErrNil, ErrInvalidMnemonic, ErrChecksumIncorrect}

\* C7: EntropyToMnemonic returns ErrInvalidEntropy and the empty string
\* exactly when the entropy is not 16, 20, 24, 28 or 32 bytes long, and
\* succeeds for each of those lengths.
C7_EntropySizeGate ==
    op = "EntropyToMnemonic" =>
        IF Len(entropy) \in {16, 20, 24, 28, 32}
        THEN res.err = ErrNil /\ Len(res.val) > 0
        ELSE res.err = ErrInvalidEntropy /\ res.val = <<>>

C7_Witness ==
    /\ op = "EntropyToMnemonic"
    /\ Len(entropy) = 36
    /\ res.err = ErrInvalidEntropy

\* C8: with an accepted word count, the decoders return ErrInvalidMnemonic
\* and no entropy whenever a word is absent from the instance's wordlist,
\* whatever the other words and the checksum bits are.
C8_UnknownWord ==
    /\ (op = "EntropyFromMnemonic" /\ Len(Words) \in {12, 15, 18, 21, 24} /\ SomeWordAbsent)
          => (res.err = ErrInvalidMnemonic /\ res.val = <<>>)
    /\ (op \in {"ArbitraryMnemonicToEntropy", "ArbitraryMnemonicToEntropy_p2"}
            /\ Len(Words) > 0 /\ Len(Words) % 3 = 0 /\ SomeWordAbsent)
          => (res.err = ErrInvalidMnemonic /\ res.val = <<>>)

C8_Witness ==
    /\ op = "ArbitraryMnemonicToEntropy_p2"
    /\ origin = "tampered"
    /\ Len(Words) = 27
    /\ wordMap(lang, Words[27]) = -1
    /\ \A i \in 1..26 : wordMap(lang, Words[i]) # -1
    /\ res.err = ErrInvalidMnemonic

\* the 11-bit indices of the caller's words, concatenated
IndexBits ==
    [k \in 1..(WordBits * Len(Words)) |->
        Bit(wordMap(lang, Words[((k - 1) \div WordBits) + 1]), WordBits - 1 - ((k - 1) % WordBits))]

\* the entropy part of IndexBits: 32 of every 33 bits, as bytes
IndexEntropy ==
    [j \in 1..(4 * (Len(Words) \div 3)) |-> BitsValue(IndexBits, 8 * j - 7, 8 * j)]

\* the checksum part of IndexBits: the low Len(Words) / 3 bits
IndexChecksum == SubSeq(IndexBits, 32 * (Len(Words) \div 3) + 1, 33 * (Len(Words) \div 3))

\* the leading Len(Words) / 3 bits of the hash of the decoded entropy
HashChecksum == SubSeq(BytesToBits(sha256Sum(IndexEntropy, salt)), 1, Len(Words) \div 3)

\* a decoder has been called on an accepted number of words, all of them in
\* the wordlist, with a checksum no wider than the hash
C9_Case ==
    /\ ~SomeWordAbsent
    /\ \/ op = "EntropyFromMnemonic" /\ Len(Words) \in {12, 15, 18, 21, 24}
       \/ /\ op \in {"ArbitraryMnemonicToEntropy", "ArbitraryMnemonicToEntropy_p2"}
          /\ Len(Words) > 0 /\ Len(Words) % 3 = 0 /\ Len(Words) \div 3 <= 8 * HashLen

\* C9 (as claimed): with an accepted word count and all words in the
\* wordlist, the decoders return ErrChecksumIncorrect exactly when the
\* checksum bits of the mnemonic differ from the leading bits of the hash of
\* the decoded entropy, and return the entropy otherwise.
C9_ChecksumDecides ==
    C9_Case => res = (IF IndexChecksum # HashChecksum
                      THEN Fail(ErrChecksumIncorrect) ELSE Ok(IndexEntropy))

\* C10 (as claimed): every language DetectLanguage returns has a wordlist
\* that contains every word of the mnemonic.
C10_DetectedContainAll ==
    op = "DetectLanguage" =>
        \A l \in res.languages : \A i \in 1..Len(Words) : wordMap(l, Words[i]) # -1

\* the languages DetectLanguage starts from: the WithLanguages option, or
\* all languages without it
Candidates == IF optLanguages # {} THEN optLanguages ELSE innerLanguages

\* the wordlist of language l contains every word of the caller's mnemonic
ContainsAllWords(l) == \A i \in 1..Len(Words) : wordMap(l, Words[i]) # -1

\* C11: for a mnemonic without ideographic space, DetectLanguage returns
\* every candidate language whose wordlist contains every word, with found
\* true; several such languages are all returned.
C11_AllCompatibleReturned ==
    (op = "DetectLanguage" /\ \A i \in 1..Len(mnemonic) : mnemonic[i] # japaneseSpace)
        => \A l \in Candidates :
               ContainsAllWords(l) => (l \in res.languages /\ res.ok)

C11_Witness ==
    /\ op = "DetectLanguage"
    /\ optLanguages = {}
    /\ origin = "ArbitraryEntropyToMnemonic_p2"
    /\ Len(Words) = 12
    /\ ContainsAllWords(ChineseSimplified) /\ ContainsAllWords(ChineseTraditional)
    /\ res.languages = {ChineseSimplified, ChineseTraditional}
    /\ res.ok

\* C12: with a non-empty WithLanguages option DetectLanguage returns only
\* languages of the option, even when the wordlist of another language
\* contains every word.
C12_OnlyRestricted ==
    (op = "DetectLanguage" /\ optLanguages # {}) => res.languages \subseteq optLanguages

C12_Witness ==
    /\ op = "DetectLanguage"
    /\ optLanguages = {English}
    /\ lang = French
    /\ Len(Words) = 12
    /\ ContainsAllWords(French) /\ ContainsAllWords(English)
    /\ res.languages = {English}
    /\ res.ok

\* C13 (as claimed): IsMnemonicValid returns true for every mnemonic
\* GenerateMnemonic or EntropyToMnemonic produced, in every language and
\* for every valid entropy size.
C13_ProducedIsValid ==
    (op = "IsMnemonicValid" /\ origin \in {"EntropyToMnemonic", "GenerateMnemonic"})
        => res.valid

\* the word count of each standard entropy length in bytes
StandardWordCount == (16 :> 12) @@ (20 :> 15) @@ (24 :> 18) @@ (28 :> 21) @@ (32 :> 24)

\* C14: for entropy of 16, 20, 24, 28 and 32 bytes EntropyToMnemonic gives
\* 12, 15, 18, 21 and 24 words, which is (entropyBits + entropyBits/32) / 11,
\* and every word is in the wordlist of the instance.
C14_StandardWordCount ==
    (op = "EntropyToMnemonic" /\ Len(entropy) \in StandardLens) =>
        LET words == SplitMnemonic(res.val).words
        IN  /\ res.err = ErrNil
            /\ Len(words) = StandardWordCount[Len(entropy)]
            /\ Len(words) = (Len(entropy) * 8 + (Len(entropy) * 8) \div 32) \div WordBits
            /\ \A i \in 1..Len(words) : wordMap(lang, words[i]) # -1

C14_Witness ==
    /\ op = "EntropyToMnemonic"
    /\ lang = Korean
    /\ Len(entropy) = 28
    /\ res.err = ErrNil
    /\ Len(SplitMnemonic(res.val).words) = 21

\* C15: for every entropy of n bytes it accepts, ArbitraryEntropyToMnemonic
\* gives 3 * ceil(n / 4) words, every one in the wordlist of the instance.
C15_ArbitraryWordCount ==
    (op \in {"ArbitraryEntropyToMnemonic", "ArbitraryEntropyToMnemonic_p2"}
        /\ res.err = ErrNil) =>
        LET words == SplitMnemonic(res.val).words
        IN  /\ Len(words) = 3 * ((Len(entropy) + 3) \div 4)
            /\ \A i \in 1..Len(words) : wordMap(lang, words[i]) # -1

C15_Witness ==
    /\ op = "ArbitraryEntropyToMnemonic_p2"
    /\ Len(entropy) = 100
    /\ res.err = ErrNil
    /\ Len(SplitMnemonic(res.val).words) = 75

C17_DelimiterAnywhere ==
    op = "SplitMnemonic" =>
        /\ res.delimiter = (IF \E i \in 1..Len(mnemonic) : mnemonic[i] = japaneseSpace
                            THEN japaneseSpace ELSE regularSpace)
        /\ res.words = WordsOf(mnemonic)

\* an ideographic space stands between two words of the caller's string
IdeographicBetweenWords ==
    \E j \in 1..Len(mnemonic) :
        /\ mnemonic[j] = japaneseSpace
        /\ \E i \in 1..(j - 1) : mnemonic[i] >= 0
        /\ \E k \in (j + 1)..Len(mnemonic) : mnemonic[k] >= 0

\* C17 (amended): SplitMnemonic reports the ideographic space exactly when
\* it occurs between two words, that is in the input with its leading and
\* trailing white space trimmed, and the ordinary space otherwise; its words
\* are the maximal runs of non-separator characters, in order.
C17_DelimiterBetweenWords ==
    op = "SplitMnemonic" =>
        /\ res.delimiter = (IF IdeographicBetweenWords THEN japaneseSpace ELSE regularSpace)
        /\ res.words = WordsOf(mnemonic)

C17_Witness ==
    /\ op = "SplitMnemonic"
    /\ Len(mnemonic) = 4
    /\ mnemonic[1] >= 0 /\ mnemonic[2] = regularSpace /\ mnemonic[3] >= 0
    /\ mnemonic[4] = japaneseSpace
    /\ res.delimiter = regularSpace
    /\ Len(res.words) = 2

\* C18: NormalizeMnemonic returns the words of SplitMnemonic joined by the
\* delimiter SplitMnemonic reports; the result neither starts nor ends with
\* a separator, has no two adjacent separators, is left unchanged by
\* NormalizeMnemonic and has the same words as the input.
C18_Normalized ==
    op = "NormalizeMnemonic" =>
        LET sp == SplitMnemonic(mnemonic)
            r  == res.val
        IN  /\ r = Join(sp.words, sp.delimiter)
            /\ r # <<>> => (r[1] >= 0 /\ r[Len(r)] >= 0)
            /\ \A i \in 1..(Len(r) - 1) : ~(r[i] < 0 /\ r[i + 1] < 0)
            /\ \A i \in 1..Len(r) : r[i] < 0 => r[i] = sp.delimiter
            /\ NormalizeMnemonic(r) = r
            /\ SplitMnemonic(r).words = sp.words
            /\ origin = "normalized" => r = mnemonic

C18_Witness ==
    /\ op = "NormalizeMnemonic"
    /\ origin = "typed"
    /\ Len(mnemonic) = 4
    /\ mnemonic[1] = tabRune /\ mnemonic[3] = japaneseSpace
    /\ Len(res.val) = 3
    /\ res.val[2] = japaneseSpace

C20_Generate ==
    /\ op = "GenerateMnemonic" =>
          LET bits == IF call.entropyBits = -1 THEN 128 ELSE call.entropyBits
          IN  IF bits \notin {128, 160, 192, 224, 256}
              THEN res.err = ErrInvalidEntropy /\ res.val = <<>> /\ res.drawn = 0
              ELSE IF call.randErr
              THEN res.err \notin {ErrNil, ErrInvalidEntropy} /\ res.val = <<>>
              ELSE /\ res.err = ErrNil
                   /\ res.drawn = bits \div 8
                   /\ Len(entropy) = bits \div 8
                   /\ res.val = EntropyToMnemonic(lang, entropy, salt).val
                   /\ Len(SplitMnemonic(res.val).words) = (3 * bits) \div 32
    /\ (op = "EntropyFromMnemonic" /\ origin = "GenerateMnemonic")
          => (res.err = ErrNil /\ res.val = entropy)

C20_Witness ==
    /\ op = "GenerateMnemonic"
    /\ call.entropyBits = 192
    /\ ~call.randErr
    /\ res.err = ErrNil
    /\ res.drawn = 24
    /\ Len(SplitMnemonic(res.val).words) = 18

\* C21 (as claimed): for every mnemonic of a positive multiple of 3 words,
\* all in the wordlist, whatever its length, ArbitraryMnemonicToEntropy
\* returns the entropy or an error value and never aborts.
C21_NeverAborts ==
    (op \in {"ArbitraryMnemonicToEntropy", "ArbitraryMnemonicToEntropy_p2"}
        /\ Len(Words) > 0 /\ Len(Words) % 3 = 0 /\ ~SomeWordAbsent)
        => res.err # Panic

\* C22 (as claimed): the checksum bits of the mnemonic ArbitraryEntropyToMnemonic
\* returns are the leading n/4 bits of the hash of the padded entropy of n
\* bytes, taken from consecutive hash bytes.
C22_ChecksumLeadingHashBits ==
    (op \in {"ArbitraryEntropyToMnemonic", "ArbitraryEntropyToMnemonic_p2"}
        /\ res.err = ErrNil /\ Len(Words) \div 3 <= 8 * HashLen)
        => /\ IndexEntropy = ZeroPadded(entropy)
           /\ IndexChecksum = SubSeq(BytesToBits(sha256Sum(ZeroPadded(entropy), salt)),
                                     1, Len(ZeroPadded(entropy)) \div 4)

C24_IdeographicIsJapanese ==
    (op = "DetectLanguage" /\ IdeographicBetweenWords) =>
        /\ \/ res = [languages |-> {Japanese}, ok |-> TRUE]
           \/ res = [languages |-> {}, ok |-> FALSE]
        /\ (optLanguages # {} /\ Japanese \notin optLanguages) => ~res.ok

C24_Witness ==
    /\ op = "DetectLanguage"
    /\ lang = English
    /\ optLanguages = {}
    /\ Len(Words) = 12
    /\ ContainsAllWords(English)
    /\ IdeographicBetweenWords
    /\ res = [languages |-> {}, ok |-> FALSE]

\* C27: two entropies of the same length that differ in one bit give, on one
\* instance, mnemonics of the same number of words that differ in at least
\* one word, for EntropyToMnemonic and for ArbitraryEntropyToMnemonic.
C27_Injective ==
    op = "ReEncodeFlipped" =>
        LET words == SplitMnemonic(res.val).words
        IN  /\ res.err = ErrNil
            /\ Len(words) = Len(Words)
            /\ \E i \in 1..Len(words) : words[i] # Words[i]

C27_Witness ==
    /\ op = "ReEncodeFlipped"
    /\ origin = "ArbitraryEntropyToMnemonic_p2"
    /\ Len(entropy) = 36
    /\ res.err = ErrNil
    /\ SplitMnemonic(res.val).words[1] = Words[1]
    /\ SplitMnemonic(res.val).words # Words

\* C29: a mnemonic EntropyFromMnemonic accepts, produced by the encoder or
\* not and whatever its separators, has exactly the words of
\* EntropyToMnemonic of its entropy, in order; the same for the generalized
\* decoder and encoder.
C29_Canonical ==
    op \in {"ReEncode", "ReEncodeArbitrary", "ReEncodeArbitrary_p2"} =>
        (res.err = ErrNil /\ SplitMnemonic(res.val).words = Words)

C29_Witness ==
    /\ op = "ReEncode"
    /\ origin = "respaced"
    /\ lang = Japanese
    /\ Len(Words) = 15
    /\ res.err = ErrNil
    /\ res.val # mnemonic
    /\ SplitMnemonic(res.val).words = Words

\* C28: on entropy of 16, 20, 24, 28 or 32 bytes ArbitraryEntropyToMnemonic
\* returns what EntropyToMnemonic returns, and on mnemonics of 12, 15, 18,
\* 21 or 24 words ArbitraryMnemonicToEntropy returns the entropy or the
\* error EntropyFromMnemonic returns.
C28_SameOnStandardSizes ==
    /\ (op \in {"ArbitraryEntropyToMnemonic", "ArbitraryEntropyToMnemonic_p2"}
            /\ Len(entropy) \in StandardLens)
          => res = EntropyToMnemonic(lang, entropy, salt)
    /\ (op \in {"ArbitraryMnemonicToEntropy", "ArbitraryMnemonicToEntropy_p2"}
            /\ Len(Words) \in validWordsSizes)
          => res = EntropyFromMnemonic(lang, mnemonic, salt)

C28_Witness ==
    /\ op = "ArbitraryMnemonicToEntropy_p2"
    /\ origin = "tampered"
    /\ Len(Words) = 24
    /\ ~SomeWordAbsent
    /\ res.err = ErrChecksumIncorrect
    /\ EntropyFromMnemonic(lang, mnemonic, salt).err = ErrChecksumIncorrect

\* the length in bytes of the buffer the encoder just called reads its
\* 11-bit groups from: the entropy and one checksum byte, or the padded
\* entropy and its checksum bytes
EncoderBufferLen ==
    IF op = "EntropyToMnemonic" THEN Len(entropy) + 1
    ELSE Len(ZeroPadded(entropy)) + ((Len(ZeroPadded(entropy)) \div 4) + 7) \div 8

\* C30: in every successful encoder call each 11-bit group lies inside the
\* entropy+checksum buffer, is read most significant bit first, and is an
\* index from 0 to 2047.
C30_GroupsInBuffer ==
    (op \in Encoders /\ res.err = ErrNil) =>
        LET padded == IF op = "EntropyToMnemonic" THEN entropy ELSE ZeroPadded(entropy)
        IN  /\ \A i \in 0..(Len(Words) - 1) : i * WordBits + WordBits <= 8 * EncoderBufferLen
            /\ \A i \in 1..Len(Words) : wordMap(lang, Words[i]) \in 0..(WordListLen - 1)
            /\ SubSeq(IndexBits, 1, 8 * Len(padded)) = BytesToBits(padded)

C30_Witness ==
    /\ op = "ArbitraryEntropyToMnemonic"
    /\ Len(entropy) = 40
    /\ res.err = ErrNil
    /\ Len(Words) * WordBits = 8 * EncoderBufferLen - 6
    /\ wordMap(lang, Words[1]) = WordListLen - 1

\* C25: an encoder call leaves the caller's entropy as it was, on success
\* and on error: the bytes of the slice and the bytes of its underlying
\* array beyond the slice's length
C25_EntropyUnchanged ==
    [][(op' \in Encoders) => (entropy' = entropy /\ spare' = spare)]_vars

\* what a call returns when no other call runs
Alone(c) ==
    CASE c.name = "EntropyToMnemonic" -> EntropyToMnemonic(lang, c.input, salt)
      [] c.name = "ArbitraryEntropyToMnemonic" -> ArbitraryEntropyToMnemonic(lang, c.input, salt)
      [] c.name = "DetectLanguage" -> DetectLanguage(mnemonic, optLanguages)
      [] c.name = "EntropyFromMnemonic" -> EntropyFromMnemonic(lang, mnemonic, salt)
      [] c.name = "IsMnemonicValid" -> [valid |-> IsMnemonicValid(mnemonic, salt)]

\* C26: under every interleaving of concurrent encode, decode,
\* DetectLanguage and IsMnemonicValid calls, a call that has returned has
\* returned what it returns when it runs alone
C26_AsRunAlone ==
    \A p \in DOMAIN calls : calls[p].pc = "done" => calls[p].result = Alone(calls[p])

====
